---- MODULE Spec2Model ----
(***************************************************************************)
(* A model of jscpu, a small register machine that interprets a textual    *)
(* assembly language (src/unnamed/part_000, the full implementation;       *)
(* src/jscpu.js is an earlier cut with the same loader, loop, add, sub and *)
(* mov).  Text is modelled as sequences of one-character strings, so that  *)
(* split, trim and parseInt are computed as the code computes them.        *)
(***************************************************************************)
EXTENDS Integers, Sequences, FiniteSets, TLC

VARIABLES inst, pEnd, registers, mode, err, loads, asm, trace, prior

vars == <<inst, pEnd, registers, mode, err, loads, asm, trace, prior>>

(***************************************************************************)
(* Bounds of the model.                                                    *)
(***************************************************************************)
\* how many times init() is called on the one instance
MaxLoads == 2
\* how many instructions a run may execute before the model stops following it
MaxSteps == 200
\* how many digits in a row a text given to init may have: with so many, decimal
\* or hexadecimal, the integer the digits spell is the number parseInt returns
\* (from 2^53 on parseInt rounds to a double, and a longer numeral is Infinity)
MaxDigits == 7
\* how large a register may grow before the run is no longer followed:
\* up to here sums and differences of registers and immediates are integers
\* that JavaScript's doubles hold exactly, as JsAdd and JsSub compute them
MaxMagnitude == 1000000000

(***************************************************************************)
(* JavaScript numbers: an integer or NaN.                                  *)
(***************************************************************************)
Num(n) == [nan |-> FALSE, n |-> n]
NaN == [nan |-> TRUE, n |-> 0]

\* a + b; the operands of a run stay within MaxMagnitude and MaxDigits, where
\* the sum and the difference of doubles are those of the integers
JsAdd(a, b) == IF a.nan \/ b.nan THEN NaN ELSE Num(a.n + b.n)
\* a - b
JsSub(a, b) == IF a.nan \/ b.nan THEN NaN ELSE Num(a.n - b.n)
\* a < b, false when either is NaN
JsLt(a, b) == ~a.nan /\ ~b.nan /\ a.n < b.n
\* a > b
JsGt(a, b) == JsLt(b, a)
\* a >= b
JsGe(a, b) == ~a.nan /\ ~b.nan /\ a.n >= b.n
\* a === b on numbers: NaN equals nothing, itself included
JsStrictEq(a, b) == ~a.nan /\ ~b.nan /\ a.n = b.n

(***************************************************************************)
(* Strings.                                                                *)
(***************************************************************************)
\* the white space and line terminators that cannot stand in a string of this
\* module (U+2000 to U+200A, U+2028, U+2029, U+202F, U+205F, U+3000), each
\* written as the one-character string that spells its code point
NamedSpace ==
    {"U+2000", "U+2001", "U+2002", "U+2003", "U+2004", "U+2005", "U+2006", "U+2007",
     "U+2008", "U+2009", "U+200A", "U+2028", "U+2029", "U+202F", "U+205F", "U+3000"}

\* what String.prototype.trim strips and parseInt skips: the white space and
\* the line terminators of ECMAScript.  After space, tab, carriage return,
\* line feed and form feed come the characters U+000B, U+00A0, U+1680 and
\* U+FEFF themselves
WhiteSpace ==
    {" ", "\t", "\r", "\n", "\f", "", " ", " ", "﻿"} \cup NamedSpace

RECURSIVE TrimLeft(_)
TrimLeft(s) ==
    IF s # <<>> /\ Head(s) \in WhiteSpace THEN TrimLeft(Tail(s)) ELSE s

RECURSIVE TrimRight(_)
TrimRight(s) ==
    IF s # <<>> /\ s[Len(s)] \in WhiteSpace
    THEN TrimRight(SubSeq(s, 1, Len(s) - 1))
    ELSE s

\* String.prototype.trim
Trim(s) == TrimRight(TrimLeft(s))

\* String.prototype.split with a one-character separator: the pieces between
\* the separators, so a string without one (the empty string too) gives one piece
RECURSIVE SplitFrom(_, _, _)
SplitFrom(s, sep, cur) ==
    IF s = <<>> THEN <<cur>>
    ELSE IF Head(s) = sep THEN <<cur>> \o SplitFrom(Tail(s), sep, <<>>)
    ELSE SplitFrom(Tail(s), sep, Append(cur, Head(s)))

Split(s, sep) == SplitFrom(s, sep, <<>>)

\* String.prototype.substr(start, length)
Substr(s, start, length) ==
    SubSeq(s, start + 1, IF start + length < Len(s) THEN start + length ELSE Len(s))

\* String.prototype.substr(start)
SubstrFrom(s, start) == SubSeq(s, start + 1, Len(s))

Digits == <<"0", "1", "2", "3", "4", "5", "6", "7", "8", "9",
            "a", "b", "c", "d", "e", "f">>
UpperDigits == <<"0", "1", "2", "3", "4", "5", "6", "7", "8", "9",
                 "A", "B", "C", "D", "E", "F">>

\* the value of character c as a digit in the given radix, -1 when it is none
DigitVal(c, radix) ==
    LET hits == {i \in 1..radix : Digits[i] = c \/ UpperDigits[i] = c}
    IN IF hits = {} THEN -1 ELSE (CHOOSE i \in hits : TRUE) - 1

\* the longest prefix of digits of s, as <<value, number of digits>>
RECURSIVE DigitRun(_, _, _, _)
DigitRun(s, radix, acc, count) ==
    IF s = <<>> \/ DigitVal(Head(s), radix) < 0 THEN <<acc, count>>
    ELSE DigitRun(Tail(s), radix, acc * radix + DigitVal(Head(s), radix), count + 1)

\* the characters that are digits, decimal or hexadecimal
DigitChars == {Digits[i] : i \in 1..16} \cup {UpperDigits[i] : i \in 1..16}

\* s has no run of more than len digits: any len + 1 characters in a row have
\* one among them that is no digit
DigitsWithin(s, len) ==
    {i \in 1..(Len(s) - len) : {s[j] : j \in i..(i + len)} \subseteq DigitChars} = {}

\* parseInt(s) with no radix: leading white space, a sign, 0x for base 16,
\* then the longest run of digits; NaN when there is no digit.  The value is
\* the integer the digits spell, which is the number parseInt returns for
\* every numeral below 2^53; init admits no text with a numeral of more than
\* MaxDigits digits
parseInt(s) ==
    LET t == TrimLeft(s)
        neg == t # <<>> /\ Head(t) = "-"
        u == IF t # <<>> /\ Head(t) \in {"-", "+"} THEN Tail(t) ELSE t
        hex == Len(u) >= 2 /\ u[1] = "0" /\ u[2] \in {"x", "X"}
        run == IF hex THEN DigitRun(SubstrFrom(u, 2), 16, 0, 0)
               ELSE DigitRun(u, 10, 0, 0)
    IN IF run[2] = 0 THEN NaN
       ELSE Num(IF neg THEN 0 - run[1] ELSE run[1])

(***************************************************************************)
(* The register bank and the dispatch table.                               *)
(***************************************************************************)
regSize == 256

R0 == <<"r", "0">>
R1 == <<"r", "1">>
S == <<"s">>
OVFL == <<"o", "v", "f", "l">>
UDFL == <<"u", "d", "f", "l">>
PC == <<"p", "c">>

RegNames == {R0, R1, S, OVFL, UDFL, PC}

\* cpu.registers before the first reset: the constructor does not set it
NoRegisters == [r \in {} |-> NaN]

\* the register map cpu.reset() assigns
reset == [r \in RegNames |-> Num(0)]

ADD == <<"a", "d", "d">>
SUB == <<"s", "u", "b">>
MOV == <<"m", "o", "v">>
JMP == <<"j", "m", "p">>
CMP == <<"c", "m", "p">>
CGT == <<"c", "g", "t">>
CLT == <<"c", "l", "t">>
JNZ == <<"j", "n", "z">>
JZE == <<"j", "z", "e">>

\* the keys of cpu.instructionSet, each with the handler it holds; cpu.cgt and
\* cpu.clt are never assigned, so those two keys hold undefined
instructionSet ==
    [op \in {ADD, SUB, MOV, JMP, CMP, CGT, CLT, JNZ, JZE} |->
        IF op \in {CGT, CLT} THEN "undefined"
        ELSE CASE op = ADD -> "add" [] op = SUB -> "sub" [] op = MOV -> "mov"
               [] op = JMP -> "jmp" [] op = CMP -> "cmp" [] op = JNZ -> "jnz"
               [] op = JZE -> "jze"]

(***************************************************************************)
(* Errors.  A handler or resolver returns [err, regs, val]: err is NoError *)
(* or what was thrown, regs the register map as it then is, val the value  *)
(* returned.                                                               *)
(***************************************************************************)
\* the line of an error is the value of pc that its message spells, a number
\* or NaN; NoLine stands for it when the message names no line
NoLine == Num(-1)

NoError == [kind |-> "none", line |-> NoLine]

Error(kind, line) == [kind |-> kind, line |-> line]

Return(regs, val) == [err |-> NoError, regs |-> regs, val |-> val]

Throw(regs, kind, line) == [err |-> Error(kind, line), regs |-> regs, val |-> NaN]

Threw(r) == r.err # NoError

\* r when it returned, and what it threw when it threw; next is what the code
\* goes on to do with r's value, and is not evaluated when r threw
Then(r, next) == IF Threw(r) THEN r ELSE next

\* cpu.validateRegister: it throws when rName is no key of the register map
validateRegister(regs, rName) ==
    IF rName \notin DOMAIN regs
    THEN Throw(regs, "UnknownRegister", regs[PC])
    ELSE Return(regs, TRUE)

\* cpu.getRegisterValue
getRegisterValue(regs, rName) ==
    Then(validateRegister(regs, rName), Return(regs, regs[rName]))

\* cpu.setRegisterValue
setRegisterValue(regs, rName, val) ==
    Then(validateRegister(regs, rName), Return([regs EXCEPT ![rName] = val], val))

\* the token rv resolved: an immediate parsed, or a register read
Resolve(regs, rv) ==
    IF Substr(rv, 0, 1) = <<"#">>
    THEN Return(regs, parseInt(SubstrFrom(rv, 1)))
    ELSE getRegisterValue(regs, rv)

\* cpu.parseArgs once args is split into ara
parseSplit(regs, ara, ind, exec, len) ==
    IF Len(ara) < len THEN Throw(regs, "ArgCount", regs[PC])
    ELSE IF exec = FALSE THEN Return(regs, ara[ind + 1])
    ELSE Resolve(regs, ara[ind + 1])

\* cpu.parseArgs(args, ind, exec, len): exec = FALSE returns the token itself.
\* Every call of the code has ind < len, so ara[ind] exists once the count passed.
parseArgs(regs, args, ind, exec, len) ==
    parseSplit(regs, Split(args, ","), ind, exec, len)

\* Math.floor: every number of the model is an integer or NaN, which it returns
MathFloor(v) == IF v.nan THEN NaN ELSE Num(v.n)

\* addStore with ovfl following the last sum: raised on overflow, lowered otherwise
addStoreFlagFollows(regs, res, dr) ==
    IF JsGe(res, Num(regSize))
    THEN Then(setRegisterValue(regs, OVFL, Num(1)),
              setRegisterValue([regs EXCEPT ![OVFL] = Num(1)], dr, Num(regSize - 1)))
    ELSE Then(setRegisterValue(regs, OVFL, Num(0)),
              setRegisterValue([regs EXCEPT ![OVFL] = Num(0)], dr, res))

(***************************************************************************)
(* The instruction handlers.                                               *)
(***************************************************************************)
\* addStore with the overflow test written res > regSize: a sum of exactly
\* regSize is stored unclamped
addStoreOffByOne(regs, res, dr) ==
    IF JsGt(res, Num(regSize))
    THEN Then(setRegisterValue(regs, OVFL, Num(1)),
              setRegisterValue([regs EXCEPT ![OVFL] = Num(1)], dr, Num(regSize - 1)))
    ELSE setRegisterValue(regs, dr, res)

\* the end of cpu.add: the sum res is clamped and flagged, then stored in dr
addStore(regs, res, dr) ==
    IF JsGe(res, Num(regSize))
    THEN Then(setRegisterValue(regs, OVFL, Num(1)),
              setRegisterValue([regs EXCEPT ![OVFL] = Num(1)], dr, Num(regSize - 1)))
    ELSE setRegisterValue(regs, dr, res)

\* cpu.add once its three operands are resolved
addArgs(regs, ad, cv, dr) ==
    Then(ad, Then(cv, Then(dr,
        addStore(regs, MathFloor(JsAdd(ad.val, cv.val)), dr.val))))

\* cpu.add
add(regs, arg) ==
    addArgs(regs, parseArgs(regs, arg, 0, TRUE, 2), parseArgs(regs, arg, 1, TRUE, 2),
            parseArgs(regs, arg, 1, FALSE, 2))

\* cpu.mov once its two operands are resolved
movArgs(regs, dr, dv) ==
    Then(dr, Then(dv, setRegisterValue(regs, dr.val, dv.val)))

\* cpu.mov
mov(regs, arg) ==
    movArgs(regs, parseArgs(regs, arg, 0, FALSE, 2), parseArgs(regs, arg, 1, TRUE, 2))

\* subStore recording in udfl by how much the difference fell below 0
subStoreBorrow(regs, res, dr) ==
    IF JsLt(res, Num(0))
    THEN Then(setRegisterValue(regs, UDFL, Num(0 - res.n)),
              setRegisterValue([regs EXCEPT ![UDFL] = Num(0 - res.n)], dr, Num(0)))
    ELSE setRegisterValue(regs, dr, res)

\* the end of cpu.sub: the difference res is clamped and flagged, then stored in dr
subStore(regs, res, dr) ==
    IF JsLt(res, Num(0))
    THEN Then(setRegisterValue(regs, UDFL, Num(1)),
              setRegisterValue([regs EXCEPT ![UDFL] = Num(1)], dr, Num(0)))
    ELSE setRegisterValue(regs, dr, res)

\* subArgs with the operands of the subtraction exchanged: source minus destination
subArgsSwapped(regs, sd, cv, dr) ==
    Then(sd, Then(cv, Then(dr,
        subStore(regs, MathFloor(JsSub(sd.val, cv.val)), dr.val))))

\* cpu.sub once its three operands are resolved
subArgs(regs, sd, cv, dr) ==
    Then(sd, Then(cv, Then(dr,
        subStore(regs, MathFloor(JsSub(cv.val, sd.val)), dr.val))))

\* cpu.sub
sub(regs, arg) ==
    subArgs(regs, parseArgs(regs, arg, 0, TRUE, 2), parseArgs(regs, arg, 1, TRUE, 2),
            parseArgs(regs, arg, 1, FALSE, 2))

\* jmpTo that stores the target itself, with no allowance for the loop's pc++
jmpToNoAdjust(regs, jd, pe) ==
    IF Threw(jd) THEN jd
    ELSE IF JsLt(jd.val, Num(0)) \/ JsGt(jd.val, Num(pe))
         THEN Throw(regs, "JumpOutOfBounds", NoLine)
    ELSE Return([regs EXCEPT ![PC] = jd.val], NaN)

\* jmpTo that assigns pc first and checks the bounds after
jmpToLateCheck(regs, jd, pe) ==
    IF Threw(jd) THEN jd
    ELSE IF JsLt(jd.val, Num(0)) \/ JsGt(jd.val, Num(pe))
         THEN Throw([regs EXCEPT ![PC] = JsSub(jd.val, Num(1))], "JumpOutOfBounds", NoLine)
    ELSE Return([regs EXCEPT ![PC] = JsSub(jd.val, Num(1))], NaN)

\* cpu.jmp once its target jd is resolved: pc is assigned directly
jmpTo(regs, jd, pe) ==
    IF Threw(jd) THEN jd
    ELSE IF JsLt(jd.val, Num(0)) \/ JsGt(jd.val, Num(pe))
         THEN Throw(regs, "JumpOutOfBounds", NoLine)
    ELSE Return([regs EXCEPT ![PC] = JsSub(jd.val, Num(1))], NaN)

\* cpu.jmp, pe being cpu.pEnd
jmp(regs, arg, pe) == jmpTo(regs, parseArgs(regs, arg, 0, TRUE, 1), pe)

\* cmpArgs that only ever raises the status register: an unequal pair leaves it
cmpArgsSticky(regs, fv, sv) ==
    Then(fv, Then(sv,
        IF JsStrictEq(fv.val, sv.val) THEN setRegisterValue(regs, S, Num(1))
        ELSE Return(regs, NaN)))

\* cpu.cmp once its two operands are resolved
cmpArgs(regs, fv, sv) ==
    Then(fv, Then(sv,
        setRegisterValue(regs, S,
                         IF JsStrictEq(fv.val, sv.val) THEN Num(1) ELSE Num(0))))

\* cpu.cmp
cmp(regs, arg) ==
    cmpArgs(regs, parseArgs(regs, arg, 0, TRUE, 2), parseArgs(regs, arg, 1, TRUE, 2))

\* jnzOn checking its target before it tests the status register
jnzOnEager(regs, r, arg, pe) ==
    IF Threw(r) THEN r
    ELSE IF Threw(jmp(regs, arg, pe)) THEN jmp(regs, arg, pe)
    ELSE IF JsStrictEq(r.val, Num(0)) THEN Return(regs, NaN)
    ELSE jmp(regs, arg, pe)

\* cpu.jnz once the status register is read into r
jnzOn(regs, r, arg, pe) ==
    IF Threw(r) THEN r
    ELSE IF JsStrictEq(r.val, Num(0)) THEN Return(regs, NaN)
    ELSE jmp(regs, arg, pe)

\* cpu.jnz
jnz(regs, arg, pe) == jnzOn(regs, getRegisterValue(regs, S), arg, pe)

\* jzeOn with the test of jnz: it jumps when the status register is not zero
jzeOnInverted(regs, r, arg, pe) ==
    IF Threw(r) THEN r
    ELSE IF JsStrictEq(r.val, Num(0)) THEN Return(regs, NaN)
    ELSE jmp(regs, arg, pe)

\* cpu.jze once the status register is read into r
jzeOn(regs, r, arg, pe) ==
    IF Threw(r) THEN r
    ELSE IF ~JsStrictEq(r.val, Num(0)) THEN Return(regs, NaN)
    ELSE jmp(regs, arg, pe)

\* cpu.jze
jze(regs, arg, pe) == jzeOn(regs, getRegisterValue(regs, S), arg, pe)

(***************************************************************************)
(* The execution loop.                                                     *)
(***************************************************************************)
\* the handler cpu.exec calls for a line split at its spaces into abf: a key of
\* the handlers below, "undefined" for a key of the table that holds no
\* function, "throw" when exec throws before it calls one
HandlerOf(abf) ==
    IF Len(abf) < 2 THEN "throw"
    ELSE IF abf[1] \notin DOMAIN instructionSet THEN "throw"
    ELSE IF Trim(abf[2]) = <<>> THEN "throw"
    ELSE instructionSet[abf[1]]

Handler(line) == HandlerOf(Split(line, " "))

\* Call with a handler that is not there taken for one that does nothing
CallSkippingMissing(h, regs, args, pe) ==
    CASE h = "add" -> add(regs, args)
      [] h = "sub" -> sub(regs, args)
      [] h = "mov" -> mov(regs, args)
      [] h = "jmp" -> jmp(regs, args, pe)
      [] h = "cmp" -> cmp(regs, args)
      [] h = "jnz" -> jnz(regs, args, pe)
      [] h = "jze" -> jze(regs, args, pe)
      [] OTHER -> Return(regs, NaN)

\* the call cpu.instructionSet[inst](args) for the handler named h
Call(h, regs, args, pe) ==
    CASE h = "add" -> add(regs, args)
      [] h = "sub" -> sub(regs, args)
      [] h = "mov" -> mov(regs, args)
      [] h = "jmp" -> jmp(regs, args, pe)
      [] h = "cmp" -> cmp(regs, args)
      [] h = "jnz" -> jnz(regs, args, pe)
      [] h = "jze" -> jze(regs, args, pe)
      [] OTHER -> Throw(regs, "TypeError", NoLine)

\* Increment without the pc++
IncrementSkipped(r) == r

\* the end of cpu.exec: pc++ once the handler r returned
Increment(r) ==
    IF Threw(r) THEN r
    ELSE Return([r.regs EXCEPT ![PC] = JsAdd(@, Num(1))], NaN)

\* cpu.exec once line is split at its spaces into abf
execSplit(regs, abf, pe) ==
    IF Len(abf) < 2 THEN Throw(regs, "ExpectedSpace", regs[PC])
    ELSE IF abf[1] \notin DOMAIN instructionSet
         THEN Throw(regs, "UnknownFunction", regs[PC])
    ELSE IF Trim(abf[2]) = <<>> THEN Throw(regs, "NoArguments", regs[PC])
    ELSE Increment(Call(instructionSet[abf[1]], regs, Trim(abf[2]), pe))

\* cpu.exec(line), pe being cpu.pEnd
exec(regs, line, pe) == execSplit(regs, Split(line, " "), pe)

(***************************************************************************)
(* Source texts the model loads.                                           *)
(***************************************************************************)
\* the decimal numeral of n, as the code's input writes it
RECURSIVE NatDec(_)
NatDec(n) == IF n < 10 THEN <<Digits[n + 1]>>
             ELSE Append(NatDec(n \div 10), Digits[(n % 10) + 1])

Dec(n) == IF n < 0 THEN <<"-">> \o NatDec(0 - n) ELSE NatDec(n)

\* the immediate operand #n
Imm(n) == <<"#">> \o Dec(n)

\* a line with one operand, with two operands
Line1(op, a) == op \o <<" ">> \o a
Line2(op, a, b) == op \o <<" ">> \o a \o <<",">> \o b

\* the lines joined by newlines, as one source text
RECURSIVE Text(_)
Text(lines) ==
    IF lines = <<>> THEN <<>>
    ELSE IF Len(lines) = 1 THEN lines[1]
    ELSE lines[1] \o <<"\n">> \o Text(Tail(lines))

\* the sample of src/jscpu.js as it is there: mnemonics in upper case, which
\* the dispatch table of src/jscpu.js has and that of src/unnamed/part_000 has
\* not, and a line feed after the last line
Sample ==
    Text(<<Line2(<<"M", "O", "V">>, R0, Imm(255)), Line2(<<"M", "O", "V">>, R1, Imm(10)),
           Line2(<<"A", "D", "D">>, R0, R1), Line2(<<"S", "U", "B">>, Imm(50), R1)>>)
    \o <<"\n">>

\* the same four lines with the mnemonics in lower case, as the dispatch table
\* of src/unnamed/part_000 has them
SampleLowerCase ==
    Text(<<Line2(MOV, R0, Imm(255)), Line2(MOV, R1, Imm(10)),
           Line2(ADD, R0, R1), Line2(SUB, Imm(50), R1)>>)

\* the values the test programs put in registers and immediates
Vals == {0, 1, 128, 255, 256, -1}

\* mov r0,#x; mov r1,#y; then one two-operand instruction on them
ArithPrograms ==
    {Text(<<Line2(MOV, R0, Imm(x)), Line2(MOV, R1, Imm(y)), Line2(op, a, b)>>) :
        x \in Vals, y \in Vals, op \in {ADD, SUB, CMP},
        a \in {Imm(v) : v \in Vals} \cup {R0, R1}, b \in {R0, R1}}

\* the ways a test program sets the status register before a jump
StatusSetups ==
    {<<>>, <<Line2(CMP, Imm(1), Imm(1))>>, <<Line2(MOV, S, Imm(2))>>}

\* a jump to t, given as an immediate or through r0, then two more lines
JumpPrograms ==
    {Text(setup \o <<Line1(j, Imm(t)), Line2(MOV, R0, Imm(7)), Line2(MOV, R1, Imm(1))>>) :
        setup \in StatusSetups, j \in {JMP, JNZ, JZE}, t \in -1..6}
    \cup
    {Text(setup \o <<Line2(MOV, R0, Imm(t)), Line1(j, R0), Line2(MOV, R0, Imm(7)),
                     Line2(MOV, R1, Imm(1))>>) :
        setup \in StatusSetups, j \in {JMP, JNZ, JZE}, t \in -1..6}

\* the jump example of the specification
JumpSample ==
    Text(<<Line1(JMP, Imm(2)), Line2(MOV, R0, Imm(1)), Line2(MOV, R1, Imm(1))>>)

XYZ == <<"x", "y", "z">>
RX == <<"r", "x">>

\* lines that make the loop or a handler throw
BadLines ==
    {Line2(XYZ, Imm(1), R0), Line2(<<"M", "O", "V">>, R0, Imm(1)),
     Line2(MOV, RX, Imm(1)), Line2(MOV, R0, RX), Line2(ADD, Imm(1), RX),
     Line2(ADD, RX, R0), Line2(SUB, RX, R1), Line2(SUB, Imm(1), RX),
     Line2(CMP, RX, Imm(1)), Line2(CMP, R0, RX), Line1(JMP, RX),
     Line1(JNZ, RX), Line1(JZE, RX),
     Line2(ADD, OVFL, Imm(300)), Line2(ADD, Imm(200), Imm(100)),
     Line2(SUB, Imm(5), Imm(3)), Line2(SUB, UDFL, Imm(-1)),
     Line2(ADD, Imm(1), Imm(1)),
     MOV, Line1(MOV, <<>>), MOV \o <<" ", " ">> \o R0 \o <<",">> \o Imm(1),
     MOV \o <<"\t">> \o R0 \o <<",">> \o Imm(1),
     Line1(MOV, R0), Line1(ADD, Imm(1)), Line1(CMP, R0),
     ADD \o <<" ">> \o Imm(1) \o <<",", " ">> \o R0,
     Line2(CGT, R0, R1), Line2(CLT, R0, R1), Line1(JMP, Imm(9)),
     Line2(MOV, PC, Imm(-3))}

\* a bad line first, after one instruction, and after a jump over one
ErrorPrograms ==
    {Text(<<bad>>) : bad \in BadLines}
    \cup {Text(<<Line2(MOV, R0, Imm(1)), Line2(MOV, S, Imm(1)), bad,
                 Line2(MOV, R1, Imm(1))>>) : bad \in BadLines}
    \cup {Text(<<Line1(JMP, Imm(2)), Line2(MOV, R0, Imm(1)), bad,
                 Line2(MOV, R1, Imm(1))>>) : bad \in BadLines}

\* empty and blank texts, and texts with blank lines and padded lines
BlankPrograms ==
    {<<>>, <<"\n">>, <<" ", "\n", "\t", "\n", " ">>, <<"\f">>,
     <<"\f", " ", "U+2028", "\n", "">>,
     Line2(MOV, R0, Imm(1)) \o <<"\n", "\f">>,
     <<"\f">> \o Line2(MOV, R0, <<"#", "\f", "5">>) \o <<"﻿", "\n", "U+3000">>,
     <<" ", " ">> \o Line2(MOV, R0, Imm(1)) \o <<" ", "\n", "\n", "\t", "\n">>
        \o Line2(MOV, R1, Imm(2)) \o <<"\r", "\n">>}

\* operands that are not decimal numerals or that name flags and pc
OddPrograms ==
    {Text(<<Line2(MOV, R0, <<"#", "x">>), Line2(CMP, R0, R0), Line1(JMP, R0)>>),
     Text(<<Line2(MOV, R0, <<"#">>), Line2(ADD, Imm(1), R0), Line2(SUB, R0, R1)>>),
     Text(<<Line2(MOV, R0, <<"#", "0", "x", "1", "F">>), Line2(MOV, R1, <<"#", "+", "7", "q">>)>>),
     Text(<<Line2(MOV, PC, Imm(1)), Line2(MOV, R0, Imm(1)), Line2(MOV, R1, Imm(1))>>),
     Text(<<Line2(ADD, Imm(1), PC), Line2(MOV, R0, Imm(1)), Line2(MOV, R1, Imm(1))>>),
     Text(<<Line2(ADD, Imm(-1), R0), Line1(JMP, Imm(0))>>),
     Text(<<Line2(ADD, Imm(255), R0), Line2(MOV, OVFL, Imm(0)), Line2(SUB, Imm(1), R1),
            Line2(ADD, Imm(1), R1)>>),
     Text(<<Line2(CMP, Imm(1), Imm(1)), Line2(CMP, PC, Imm(1)), Line2(CMP, S, Imm(1)),
            Line2(CMP, Imm(3), S)>>)}

\* the sample of src/unnamed/part_000, each of its nine lines ended by a line
\* feed: r0 counts to 10 five times over, r1 counting the rounds
NestedSample ==
    Text(<<Line2(MOV, R0, Imm(0)), Line2(MOV, R1, Imm(0)), Line2(ADD, Imm(1), R0),
           Line2(CMP, Imm(10), R0), Line1(JZE, Imm(2)), Line2(ADD, Imm(1), R1),
           Line2(MOV, R0, Imm(0)), Line2(CMP, Imm(5), R1), Line1(JZE, Imm(2))>>)
    \o <<"\n">>

\* programs that raise a flag and go on computing, none naming a flag or pc as
\* a destination
FlagPrograms ==
    {Text(<<Line2(ADD, Imm(255), R0), Line2(ADD, Imm(1), R0), Line2(ADD, Imm(1), R1),
            Line2(SUB, Imm(5), R1), Line2(SUB, Imm(0), R1), Line2(MOV, R0, Imm(3)),
            Line2(CMP, R0, R1), Line1(JMP, Imm(9)), Line2(MOV, R1, Imm(1))>>),
     Text(<<Line2(SUB, Imm(1), R0), Line2(SUB, Imm(1), R0), Line2(ADD, Imm(300), R1),
            Line2(ADD, Imm(300), R1), Line2(SUB, Imm(5), R1), Line2(ADD, OVFL, R0),
            Line2(CMP, UDFL, OVFL), Line1(JNZ, Imm(8))>>)}

\* programs that write pc with mov, add and sub
PcPrograms ==
    {Text(<<Line2(MOV, PC, Imm(k)), Line2(MOV, R0, Imm(1)), Line2(MOV, R1, Imm(1)),
            Line2(MOV, S, Imm(1))>>) : k \in -3..4}
    \cup
    {Text(<<Line2(op, Imm(k), PC), Line2(MOV, R0, Imm(1)), Line2(MOV, R1, Imm(1)),
            Line2(MOV, S, Imm(1))>>) : op \in {ADD, SUB}, k \in -2..2}

\* cgt and clt on values that are in the order they ask about
OrderPrograms ==
    {Text(<<Line2(MOV, R0, Imm(2)), Line2(MOV, R1, Imm(1)), Line2(CGT, R0, R1),
            Line2(MOV, R1, Imm(7))>>),
     Text(<<Line2(MOV, R0, Imm(1)), Line2(MOV, R1, Imm(2)), Line2(CLT, R0, R1),
            Line2(MOV, R1, Imm(7))>>),
     Text(<<Line2(CMP, R0, R1), Line2(CGT, Imm(2), Imm(1)), Line2(MOV, R1, Imm(7))>>)}

\* conditional jumps that are not taken, with operands a taken jump would reject
SkippedJumpPrograms ==
    {Text(setup \o <<Line1(j, t), Line2(MOV, R1, Imm(1))>>) :
        setup \in StatusSetups, j \in {JNZ, JZE},
        t \in {Imm(999), Imm(-1), RX, <<"#", "x">>, <<"#">>}}

\* what the first init() of an instance may be given
Programs ==
    {Sample, SampleLowerCase, JumpSample, NestedSample} \cup ArithPrograms \cup JumpPrograms
    \cup ErrorPrograms \cup BlankPrograms \cup OddPrograms \cup FlagPrograms
    \cup PcPrograms \cup OrderPrograms \cup SkippedJumpPrograms

\* a program that compares and takes both conditional jumps
BranchSample ==
    Text(<<Line2(CMP, R0, R1), Line1(JNZ, Imm(3)), Line2(MOV, R0, Imm(5)),
           Line2(CMP, R0, R1), Line1(JZE, Imm(6)), Line2(MOV, R1, Imm(9))>>)

\* the texts given to an instance that is loaded more than once
Reloads ==
    {<<>>, <<" ", "\n", "\t">>, Text(<<Line2(MOV, R1, Imm(1))>>), SampleLowerCase,
     JumpSample, BranchSample, Text(<<Line2(XYZ, Imm(1), R0)>>),
     Text(<<Line2(MOV, PC, Imm(-3))>>)}

(***************************************************************************)
(* The machine.                                                            *)
(***************************************************************************)
\* the state after new jscpu()
Init ==
    /\ inst = <<>>
    /\ pEnd = 0
    /\ registers = NoRegisters
    /\ mode = "new"
    /\ err = NoError
    /\ loads = 0
    /\ asm = <<>>
    /\ trace = <<>>
    /\ prior = NoRegisters

\* the lines of rb that cpu.init pushes: each trimmed, the blank ones skipped
RECURSIVE Pushed(_)
Pushed(rb) ==
    IF rb = <<>> THEN <<>>
    ELSE IF Trim(Head(rb)) = <<>> THEN Pushed(Tail(rb))
    ELSE <<Trim(Head(rb))>> \o Pushed(Tail(rb))

\* cpu.init(a), up to its call of cpu.main
init(a) ==
    /\ mode \in {"new", "halted", "error"}
    /\ loads < MaxLoads
    /\ DigitsWithin(a, MaxDigits)
    /\ loads' = loads + 1
    /\ asm' = a
    /\ registers' = reset
    /\ prior' = reset
    /\ trace' = <<>>
    /\ LET rb == Split(a, "\n")
       IN IF Len(rb) < 1
          THEN /\ mode' = "error"
               /\ err' = Error("NoSource", NoLine)
               /\ UNCHANGED <<inst, pEnd>>
          ELSE /\ inst' = inst \o Pushed(rb)
               /\ pEnd' = Len(inst) + Len(Pushed(rb))
               /\ mode' = "running"
               /\ err' = NoError

\* the test of the loop of cpu.main holds: the loop is about to fetch
Fetching ==
    /\ mode = "running"
    /\ JsLt(registers[PC], Num(pEnd))

\* the run is within the bounds up to which it is followed: fewer than MaxSteps
\* turns taken and no register beyond MaxMagnitude
Followed ==
    /\ Len(trace) < MaxSteps
    /\ {r \in RegNames : registers[r].n \notin (0 - MaxMagnitude)..MaxMagnitude} = {}

\* cpu.inst[pc] is a line (it is undefined when pc is negative)
HasLine == registers[PC].n \in 1 - 1 .. Len(inst) - 1

Line == inst[registers[PC].n + 1]

\* Turn with the loop going on from the index it fetched at, whatever the
\* handler left in pc
TurnFromFetchIndex(r) ==
    /\ registers' = IF Threw(r) THEN r.regs
                    ELSE [r.regs EXCEPT ![PC] = JsAdd(registers[PC], Num(1))]
    /\ mode' = IF Threw(r) THEN "error" ELSE "running"
    /\ err' = r.err
    /\ trace' = Append(trace, registers[PC].n)
    /\ prior' = registers
    /\ UNCHANGED <<inst, pEnd, loads, asm>>

\* what one turn of the loop leaves, r being what cpu.exec returned or threw
Turn(r) ==
    /\ registers' = r.regs
    /\ mode' = IF Threw(r) THEN "error" ELSE "running"
    /\ err' = r.err
    /\ trace' = Append(trace, registers[PC].n)
    /\ prior' = registers
    /\ UNCHANGED <<inst, pEnd, loads, asm>>

\* one turn of the loop whose line cpu.exec hands to cpu.add
Add ==
    /\ Fetching
    /\ Followed
    /\ HasLine
    /\ Handler(Line) = "add"
    /\ Turn(exec(registers, Line, pEnd))

\* one turn of the loop whose line cpu.exec hands to cpu.sub
Sub ==
    /\ Fetching
    /\ Followed
    /\ HasLine
    /\ Handler(Line) = "sub"
    /\ Turn(exec(registers, Line, pEnd))

\* one turn of the loop whose line cpu.exec hands to cpu.mov
Mov ==
    /\ Fetching
    /\ Followed
    /\ HasLine
    /\ Handler(Line) = "mov"
    /\ Turn(exec(registers, Line, pEnd))

\* one turn of the loop whose line cpu.exec hands to cpu.jmp
Jmp ==
    /\ Fetching
    /\ Followed
    /\ HasLine
    /\ Handler(Line) = "jmp"
    /\ Turn(exec(registers, Line, pEnd))

\* one turn of the loop whose line cpu.exec hands to cpu.cmp
Cmp ==
    /\ Fetching
    /\ Followed
    /\ HasLine
    /\ Handler(Line) = "cmp"
    /\ Turn(exec(registers, Line, pEnd))

\* one turn of the loop whose line cpu.exec hands to cpu.jnz
Jnz ==
    /\ Fetching
    /\ Followed
    /\ HasLine
    /\ Handler(Line) = "jnz"
    /\ Turn(exec(registers, Line, pEnd))

\* one turn of the loop whose line cpu.exec hands to cpu.jze
Jze ==
    /\ Fetching
    /\ Followed
    /\ HasLine
    /\ Handler(Line) = "jze"
    /\ Turn(exec(registers, Line, pEnd))

\* a turn in which cpu.exec throws before it calls a handler: a syntax error
\* it reports, or the call of a table entry that holds no function
ExecThrow ==
    /\ Fetching
    /\ Followed
    /\ HasLine
    /\ Handler(Line) \in {"throw", "undefined"}
    /\ Turn(exec(registers, Line, pEnd))

\* a turn that fetches no line: cpu.exec(undefined) throws a TypeError
FetchUndefined ==
    /\ Fetching
    /\ Followed
    /\ ~HasLine
    /\ Turn(Throw(registers, "TypeError", NoLine))

\* the loop's condition fails: cpu.main and cpu.init return
MainExit ==
    /\ mode = "running"
    /\ ~JsLt(registers[PC], Num(pEnd))
    /\ mode' = "halted"
    /\ UNCHANGED <<inst, pEnd, registers, err, loads, asm, trace, prior>>

\* the first init() of a fresh instance, with any of the programs
Load ==
    /\ loads = 0
    /\ \E a \in Programs : init(a)

\* any init(), the first or a later one, with one of the texts of Reloads
Reload ==
    \E a \in Reloads : init(a)

\* the turns of the loop
Step ==
    \/ Add
    \/ Sub
    \/ Mov
    \/ Jmp
    \/ Cmp
    \/ Jnz
    \/ Jze
    \/ ExecThrow
    \/ FetchUndefined
    \/ MainExit

Next ==
    \/ Load
    \/ Step

\* one program run on a fresh instance
Spec == Init /\ [][Next]_vars

\* the loop takes a turn: whichever handler the line goes to and whatever it
\* does, the index that was fetched joins the trace
Fetch == Fetching /\ Followed /\ trace' = Append(trace, registers[PC].n)

\* cpu.main is one synchronous while loop: while its test holds the next turn is
\* taken, and once it fails the loop is left
SpecLive == Spec /\ WF_trace(Fetch) /\ WF_vars(MainExit)

NextReuse ==
    \/ Reload
    \/ Step

\* an instance that is given one text after another
SpecReuse == Init /\ [][NextReuse]_vars

\* cpu.main as a function: what a run that starts from regs leaves, a run longer
\* than fuel turns being reported as thrown with kind "Cut"
RECURSIVE FreshRun(_, _, _, _)
FreshRunNext(r, lines, pe, fuel) ==
    IF Threw(r) THEN r ELSE FreshRun(r.regs, lines, pe, fuel)

FreshRun(regs, lines, pe, fuel) ==
    IF ~JsLt(regs[PC], Num(pe)) THEN Return(regs, NaN)
    ELSE IF fuel = 0 THEN Throw(regs, "Cut", NoLine)
    ELSE IF regs[PC].n \notin 1 - 1 .. Len(lines) - 1
         THEN Throw(regs, "TypeError", NoLine)
    ELSE FreshRunNext(exec(regs, lines[regs[PC].n + 1], pe), lines, pe, fuel - 1)

(***************************************************************************)
(* What the last turn of the loop did, for the properties below.           *)
(***************************************************************************)
\* the index the last turn fetched at
LastIndex == trace[Len(trace)]

\* the last turn fetched a line
Ran == trace # <<>> /\ LastIndex \in 1 - 1 .. Len(inst) - 1

LastLine == inst[LastIndex + 1]

\* the last turn handed its line to handler h
Executed(h) == Ran /\ Handler(LastLine) = h

\* the operand tokens of the line of the last turn
LastArgs == Split(Trim(Split(LastLine, " ")[2]), ",")

\* the value token tok had when the last turn began
Before(tok) == Resolve(prior, tok)

\* v is a non-negative integer
NonNegative(v) == ~v.nan /\ v.n >= 0

\* every register but those of skip is as it was when the last turn began
Kept(skip) == \A r \in RegNames \ skip : registers[r] = prior[r]

(***************************************************************************)
(* C1: the program mov r0,#255; mov r1,#10; add r0,r1; sub #50,r1 on a     *)
(* fresh instance never throws, executes its lines 0, 1, 2, 3 once each in *)
(* that order and no other turn, and ends with r0 = 255, r1 = 205,         *)
(* ovfl = 1, udfl = 0, s = 0 and pc = pEnd = 4.                            *)
(***************************************************************************)
C1_SampleRun ==
    (mode # "new" /\ asm = SampleLowerCase) =>
        /\ mode # "error"
        /\ pEnd = 4
        /\ Len(trace) <= 4
        /\ trace = SubSeq(<<0, 1, 2, 3>>, 1, Len(trace))
        /\ (mode = "halted" =>
              /\ trace = <<0, 1, 2, 3>>
              /\ err = NoError
              /\ registers[R0] = Num(255)
              /\ registers[R1] = Num(205)
              /\ registers[OVFL] = Num(1)
              /\ registers[UDFL] = Num(0)
              /\ registers[S] = Num(0)
              /\ registers[PC] = Num(4))

C1_Witness ==
    /\ asm = SampleLowerCase
    /\ mode = "halted"
    /\ trace = <<0, 1, 2, 3>>
    /\ registers[R1] = Num(205)

(***************************************************************************)
(* C2: when add has run with a destination r0 or r1 that held b and a      *)
(* source, immediate or register, that resolved to a, both non-negative    *)
(* and a + b >= 256, it did not throw, the destination holds 255 and ovfl  *)
(* holds 1.                                                                *)
(***************************************************************************)
C2_AddOverflow ==
    (/\ Executed("add")
     /\ Len(LastArgs) >= 2
     /\ LastArgs[2] \in {R0, R1}
     /\ ~Threw(Before(LastArgs[1]))
     /\ NonNegative(Before(LastArgs[1]).val)
     /\ NonNegative(prior[LastArgs[2]])
     /\ Before(LastArgs[1]).val.n + prior[LastArgs[2]].n >= 256)
    => /\ mode # "error"
       /\ registers[LastArgs[2]] = Num(255)
       /\ registers[OVFL] = Num(1)

\* add r0,r1 with 1 in r0 and 255 in r1: the sum is exactly 256
C2_Witness ==
    /\ Executed("add")
    /\ LastArgs = <<R0, R1>>
    /\ prior[R0] = Num(1)
    /\ prior[R1] = Num(255)
    /\ registers[R1] = Num(255)
    /\ registers[OVFL] = Num(1)

(***************************************************************************)
(* C3: when sub has run with a destination r0 or r1 that held b and a      *)
(* first operand that resolved to a, both non-negative, it did not throw   *)
(* and the destination holds b - a when that is not negative; when it is,  *)
(* the destination holds 0 and udfl holds 1.                               *)
(***************************************************************************)
C3_SubUnderflow ==
    (/\ Executed("sub")
     /\ Len(LastArgs) >= 2
     /\ LastArgs[2] \in {R0, R1}
     /\ ~Threw(Before(LastArgs[1]))
     /\ NonNegative(Before(LastArgs[1]).val)
     /\ NonNegative(prior[LastArgs[2]]))
    => /\ mode # "error"
       /\ IF prior[LastArgs[2]].n - Before(LastArgs[1]).val.n < 0
          THEN registers[LastArgs[2]] = Num(0) /\ registers[UDFL] = Num(1)
          ELSE registers[LastArgs[2]] =
                   Num(prior[LastArgs[2]].n - Before(LastArgs[1]).val.n)

\* sub r0,r1 with 255 in r0 and 1 in r1: 1 - 255 is negative, 255 - 1 is not
C3_Witness ==
    /\ Executed("sub")
    /\ LastArgs = <<R0, R1>>
    /\ prior[R0] = Num(255)
    /\ prior[R1] = Num(1)
    /\ registers[R1] = Num(0)
    /\ registers[UDFL] = Num(1)

(***************************************************************************)
(* C4: when cmp has run with two operands that resolve, s holds 1 if the   *)
(* two values are numbers and equal and 0 if not, whatever it held before; *)
(* pc is one more than before and every other register is unchanged.       *)
(***************************************************************************)
C4_CmpSetsStatus ==
    (/\ Executed("cmp")
     /\ Len(LastArgs) >= 2
     /\ ~Threw(Before(LastArgs[1]))
     /\ ~Threw(Before(LastArgs[2])))
    => /\ mode # "error"
       /\ registers[S] =
            (IF /\ ~Before(LastArgs[1]).val.nan
                /\ ~Before(LastArgs[2]).val.nan
                /\ Before(LastArgs[1]).val.n = Before(LastArgs[2]).val.n
             THEN Num(1) ELSE Num(0))
       /\ registers[PC] = Num(prior[PC].n + 1)
       /\ Kept({S, PC})

\* a cmp of unequal values that found s at 1 and left it at 0
C4_Witness ==
    /\ Executed("cmp")
    /\ mode # "error"
    /\ prior[S] = Num(1)
    /\ registers[S] = Num(0)

(***************************************************************************)
(* Jumps.                                                                  *)
(***************************************************************************)
\* the status register was 0 when the last turn began
StatusZero == ~prior[S].nan /\ prior[S].n = 0

\* the target operand of the jump of the last turn, resolved
Target == Before(LastArgs[1])

\* the last turn was a jump that was taken: jmp, jnz on a status that is not 0,
\* jze on a status that is 0
JumpTaken ==
    \/ Executed("jmp")
    \/ Executed("jnz") /\ ~StatusZero
    \/ Executed("jze") /\ StatusZero

\* the last turn was a conditional jump that was not taken
JumpNotTaken ==
    \/ Executed("jnz") /\ StatusZero
    \/ Executed("jze") /\ ~StatusZero

TargetInBounds ==
    ~Threw(Target) /\ ~Target.val.nan /\ Target.val.n >= 0 /\ Target.val.n <= pEnd

TargetOutOfBounds ==
    ~Threw(Target) /\ ~Target.val.nan /\ (Target.val.n < 0 \/ Target.val.n > pEnd)

(***************************************************************************)
(* C5: jze takes its jump exactly when s is 0 and jnz exactly when s is    *)
(* not 0, whatever other value s holds: a jump taken to a target within    *)
(* 0..pEnd leaves pc at the target, a jump not taken leaves pc one more    *)
(* than before and does not throw; either way no other register changes.   *)
(***************************************************************************)
C5_ConditionalJumps ==
    /\ JumpNotTaken =>
          /\ mode # "error"
          /\ registers[PC] = Num(prior[PC].n + 1)
          /\ Kept({PC})
    /\ ((Executed("jnz") \/ Executed("jze")) /\ JumpTaken /\ TargetInBounds) =>
          /\ mode # "error"
          /\ registers[PC] = Target.val
          /\ Kept({PC})

\* jnz taken with 2 in s, to somewhere else than the next line
C5_Witness ==
    /\ Executed("jnz")
    /\ prior[S] = Num(2)
    /\ TargetInBounds
    /\ registers[PC] = Target.val
    /\ registers[PC] # Num(prior[PC].n + 1)

(***************************************************************************)
(* C6: after a jump taken to a target T within 0..pEnd the next turn       *)
(* fetches at index T, and when T = pEnd there is no next turn: the run    *)
(* ends without error.  The program jmp #2; mov r0,#1; mov r1,#1 executes  *)
(* lines 0 and 2 and ends with r0 = 0 and r1 = 1.                          *)
(***************************************************************************)
C6_JumpLandsOnTarget ==
    /\ [][(mode = "running" /\ JumpTaken /\ TargetInBounds) =>
            IF Target.val.n = pEnd
            THEN mode' = "halted" /\ err' = NoError /\ trace' = trace
            ELSE trace' = Append(trace, Target.val.n)]_vars
    /\ []((asm = JumpSample /\ mode = "halted") =>
            /\ trace = <<0, 2>>
            /\ err = NoError
            /\ registers[R0] = Num(0)
            /\ registers[R1] = Num(1))

\* a run ended by a conditional jump to pEnd, the target read from r0
C6_Witness ==
    /\ mode = "halted"
    /\ Executed("jnz")
    /\ JumpTaken
    /\ LastArgs[1] = R0
    /\ Target.val = Num(pEnd)
    /\ err = NoError

(***************************************************************************)
(* C7: a jump taken to a target below 0 or above pEnd throws the           *)
(* out-of-bounds error with every register, pc included, as it was before  *)
(* the instruction, and the loop takes no further turn.                    *)
(***************************************************************************)
C7_JumpOutOfBounds ==
    (JumpTaken /\ TargetOutOfBounds) =>
        /\ mode = "error"
        /\ err.kind = "JumpOutOfBounds"
        /\ registers = prior
        /\ ~Fetching

\* jze taken to pEnd + 1
C7_Witness ==
    /\ Executed("jze")
    /\ JumpTaken
    /\ ~Threw(Target)
    /\ Target.val = Num(pEnd + 1)
    /\ mode = "error"
    /\ registers = prior

(***************************************************************************)
(* C8: loading a text that is empty or has only blank lines throws the     *)
(* empty-program error, and the loop takes no turn.                        *)
(***************************************************************************)
C8_EmptyLoadFails ==
    (mode # "new" /\ Pushed(Split(asm, "\n")) = <<>>) =>
        /\ mode = "error"
        /\ err.kind = "NoSource"
        /\ trace = <<>>

(***************************************************************************)
(* C9: a line whose opcode is no key of the dispatch table throws the      *)
(* unknown-function error; an unknown-function or unknown-register error   *)
(* carries the index of the line that was fetched, and leaves every        *)
(* register the line names as an operand as it was before the line.        *)
(***************************************************************************)
C9_ErrorsCiteLineKeepOperands ==
    /\ (Ran /\ Len(Split(LastLine, " ")) >= 2
            /\ Split(LastLine, " ")[1] \notin DOMAIN instructionSet) =>
          (mode = "error" /\ err.kind = "UnknownFunction")
    /\ (mode = "error" /\ Ran /\ err.kind \in {"UnknownFunction", "UnknownRegister"}) =>
          /\ err.line = Num(LastIndex)
          /\ \A i \in 1..Len(LastArgs) :
                LastArgs[i] \in RegNames => registers[LastArgs[i]] = prior[LastArgs[i]]

(***************************************************************************)
(* C10: a second or later load on one instance leaves as instruction       *)
(* sequence the non-blank lines of its own text, trimmed, with pEnd their  *)
(* count; its run starts with all six registers at 0 and, when it ends,    *)
(* leaves the registers that the same text leaves on a fresh instance.     *)
(***************************************************************************)
C10_NoPersistence ==
    (loads >= 2 /\ mode # "error") =>
        /\ inst = Pushed(Split(asm, "\n"))
        /\ pEnd = Len(Pushed(Split(asm, "\n")))
        /\ (trace = <<>> => registers = reset)
        /\ (mode = "halted" =>
              registers = FreshRun(reset, Pushed(Split(asm, "\n")),
                                   Len(Pushed(Split(asm, "\n"))), MaxSteps).regs)

(***************************************************************************)
(* Destinations.                                                           *)
(***************************************************************************)
\* the token line hands to setRegisterValue as its destination: the first
\* operand of mov, the second of add and sub; <<>> when there is none
Destination(line) ==
    IF Handler(line) = "mov"
    THEN Split(Trim(Split(line, " ")[2]), ",")[1]
    ELSE IF Handler(line) \in {"add", "sub"}
              /\ Len(Split(Trim(Split(line, " ")[2]), ",")) >= 2
         THEN Split(Trim(Split(line, " ")[2]), ",")[2]
         ELSE <<>>

\* no line of the instruction sequence has a register of names as destination
NoDestination(names) == \A i \in 1..Len(inst) : Destination(inst[i]) \notin names

(***************************************************************************)
(* C11: after an add or a sub into r0 or r1 that did not throw, whatever   *)
(* the operands were (values beyond 255 put there by mov, negative         *)
(* immediates), the destination holds an integer within 0..regSize-1.      *)
(***************************************************************************)
C11_ArithResultInRange ==
    ((Executed("add") \/ Executed("sub")) /\ mode # "error"
        /\ Destination(LastLine) \in {R0, R1}) =>
        /\ ~registers[Destination(LastLine)].nan
        /\ registers[Destination(LastLine)].n \in 0..(regSize - 1)

(***************************************************************************)
(* C12 as stated: once the registers exist, s, ovfl and udfl each hold 0   *)
(* or 1, in every program.                                                 *)
(***************************************************************************)
C12_FlagsAreBits ==
    mode # "new" => \A f \in {S, OVFL, UDFL} : registers[f] \in {Num(0), Num(1)}

(***************************************************************************)
(* C12: in a program none of whose mov, add and sub lines names s, ovfl or *)
(* udfl as destination, s, ovfl and udfl each hold 0 or 1 in every state.  *)
(***************************************************************************)
C12_FlagsAreBitsUnlessWritten ==
    (mode # "new" /\ NoDestination({S, OVFL, UDFL})) =>
        \A f \in {S, OVFL, UDFL} : registers[f] \in {Num(0), Num(1)}

\* all three flags raised by cmp, add and sub
C12_Witness ==
    /\ mode # "new"
    /\ NoDestination({S, OVFL, UDFL})
    /\ Ran
    /\ registers[S] = Num(1)
    /\ registers[OVFL] = Num(1)
    /\ registers[UDFL] = Num(1)

(***************************************************************************)
(* C13: the run of the nested-counter sample (nine lines, pEnd = 9)        *)
(* eventually ends without error, with r0 = 0, r1 = 5, s = 1, ovfl = 0,    *)
(* udfl = 0 and pc = 9.                                                    *)
(***************************************************************************)
C13_NestedSampleTerminates ==
    (asm = NestedSample /\ mode = "running") ~>
        /\ mode = "halted"
        /\ err = NoError
        /\ pEnd = 9
        /\ registers[R0] = Num(0)
        /\ registers[R1] = Num(5)
        /\ registers[S] = Num(1)
        /\ registers[OVFL] = Num(0)
        /\ registers[UDFL] = Num(0)
        /\ registers[PC] = Num(9)

\* the sample has ended, after five rounds of ten
C13_Witness ==
    /\ asm = NestedSample
    /\ mode = "halted"
    /\ registers[R1] = Num(5)
    /\ Len(trace) = 2 + 5 * (10 * 3 + 4)

(***************************************************************************)
(* C14: every fetch of the loop happens at an index pc with 0 <= pc < pEnd,*)
(* where a line is, in every program, those that write pc with mov, add or *)
(* sub included.                                                           *)
(***************************************************************************)
C14_FetchInBounds ==
    \A i \in 1..Len(trace) : trace[i] \in 0..(pEnd - 1) /\ trace[i] + 1 \in DOMAIN inst

(***************************************************************************)
(* C15: a turn that begins with ovfl (udfl) at 1 and whose line does not   *)
(* name that flag as destination ends with it at 1, so a raised flag stays *)
(* raised for the rest of the run; an add whose sum is below 256 leaves    *)
(* ovfl as it was and a sub whose difference is not negative leaves udfl   *)
(* as it was.                                                              *)
(***************************************************************************)
C15_FlagsSticky ==
    /\ \A f \in {OVFL, UDFL} :
          (Ran /\ prior[f] = Num(1) /\ Destination(LastLine) # f) =>
              registers[f] = Num(1)
    /\ (Executed("add") /\ mode # "error" /\ Destination(LastLine) # OVFL
           /\ JsLt(JsAdd(Before(LastArgs[1]).val, Before(LastArgs[2]).val),
                   Num(regSize))) =>
          registers[OVFL] = prior[OVFL]
    /\ (Executed("sub") /\ mode # "error" /\ Destination(LastLine) # UDFL
           /\ JsGe(JsSub(Before(LastArgs[2]).val, Before(LastArgs[1]).val),
                   Num(0))) =>
          registers[UDFL] = prior[UDFL]

\* with both flags raised, an add below 256 has left ovfl at 1
C15_Witness ==
    /\ Executed("add")
    /\ mode # "error"
    /\ prior[OVFL] = Num(1)
    /\ prior[UDFL] = Num(1)
    /\ Destination(LastLine) \in {R0, R1}
    /\ JsLt(JsAdd(Before(LastArgs[1]).val, Before(LastArgs[2]).val), Num(regSize))
    /\ registers[OVFL] = Num(1)
    /\ registers[UDFL] = Num(1)

(***************************************************************************)
(* C16: a turn that ends without error leaves pc one more than what the    *)
(* handler left there: i + 1 after a line at index i that neither writes   *)
(* pc nor takes a jump, k + 1 after mov pc,#k, and k after jmp #k (which   *)
(* leaves k - 1); the next turn fetches at that index, or the loop ends    *)
(* when it is pEnd or more.                                                *)
(***************************************************************************)
C16_IncrementAfterHandler ==
    /\ []((Ran /\ mode # "error" /\ ~JumpTaken /\ Destination(LastLine) # PC) =>
            registers[PC] = Num(LastIndex + 1))
    /\ []((Executed("mov") /\ mode # "error" /\ Destination(LastLine) = PC) =>
            registers[PC] = JsAdd(Before(LastArgs[2]).val, Num(1)))
    /\ []((Executed("jmp") /\ mode # "error") => registers[PC] = Target.val)
    /\ [][(Ran /\ mode = "running") =>
            IF JsLt(registers[PC], Num(pEnd))
            THEN trace' = Append(trace, registers[PC].n)
            ELSE mode' = "halted" /\ err' = NoError /\ trace' = trace]_vars

\* mov pc,#2 at index 0 was followed by the line at index 3
C16_Witness ==
    /\ Len(trace) = 2
    /\ Handler(inst[trace[1] + 1]) = "mov"
    /\ Destination(inst[trace[1] + 1]) = PC
    /\ Split(Trim(Split(inst[trace[1] + 1], " ")[2]), ",")[2] = Imm(2)
    /\ trace[2] = 3
    /\ Ran
    /\ mode = "running"

(***************************************************************************)
(* C17: cgt and clt are keys of the dispatch table, so a line with one of  *)
(* them never throws the unknown-function error; a turn that fetched such  *)
(* a line with operands ends in an error with every register, s and pc     *)
(* included, as it was when the turn began, and it is the last turn.       *)
(***************************************************************************)
C17_CgtCltAbort ==
    /\ {CGT, CLT} \subseteq DOMAIN instructionSet
    /\ (Ran /\ Split(LastLine, " ")[1] \in {CGT, CLT}) =>
          /\ mode = "error"
          /\ err.kind # "UnknownFunction"
          /\ ~Fetching
    /\ (Ran /\ Len(Split(LastLine, " ")) >= 2 /\ Split(LastLine, " ")[1] \in {CGT, CLT}
           /\ Trim(Split(LastLine, " ")[2]) # <<>>) =>
          /\ err.kind = "TypeError"
          /\ registers = prior
          /\ registers[PC] = Num(LastIndex)

\* cgt r0,r1 with r0 = 2 above r1 = 1 left s at 0 and the line after it unrun
C17_Witness ==
    /\ Ran
    /\ LastLine = Line2(CGT, R0, R1)
    /\ prior[R0] = Num(2)
    /\ prior[R1] = Num(1)
    /\ registers[S] = Num(0)
    /\ mode = "error"
    /\ LastIndex + 1 < pEnd

(***************************************************************************)
(* C18: a turn that ends in an unknown-function, missing-operand, operand- *)
(* count, unknown-register or jump-out-of-bounds error is the last turn,   *)
(* and leaves every register, ovfl, udfl and pc included, as it was when   *)
(* the turn began, pc being the index of the failing line.                 *)
(***************************************************************************)
C18_ErrorsAtomic ==
    (mode = "error" /\ Ran
        /\ err.kind \in {"ExpectedSpace", "UnknownFunction", "NoArguments", "ArgCount",
                         "UnknownRegister", "JumpOutOfBounds"}) =>
        /\ ~Fetching
        /\ registers[PC] = Num(LastIndex)
        /\ registers = prior

(***************************************************************************)
(* C19: in a program none of whose mov, add and sub lines names pc as      *)
(* destination, pc is an integer within 0..pEnd whenever the loop tests    *)
(* it, and is pEnd when the loop is left without error.                    *)
(***************************************************************************)
C19_PcWithinProgram ==
    (mode \in {"running", "halted"} /\ NoDestination({PC})) =>
        /\ ~registers[PC].nan
        /\ registers[PC].n \in 0..pEnd
        /\ (mode = "halted" => registers[PC] = Num(pEnd))

(***************************************************************************)
(* C20: a conditional jump that is not taken (jnz with s = 0, jze with s   *)
(* not 0) does not look at its operand: with a target out of 0..pEnd, a    *)
(* target that is no number or an unknown register it throws nothing,      *)
(* changes no register but pc, and the loop goes on with the next line.    *)
(***************************************************************************)
C20_SkippedJumpIgnoresOperand ==
    /\ []((JumpNotTaken /\ (Threw(Target) \/ Target.val.nan \/ TargetOutOfBounds)) =>
            /\ mode # "error"
            /\ err = NoError
            /\ registers = [prior EXCEPT ![PC] = Num(LastIndex + 1)])
    /\ [][(mode = "running" /\ JumpNotTaken
             /\ (Threw(Target) \/ Target.val.nan \/ TargetOutOfBounds)) =>
            IF LastIndex + 1 < pEnd
            THEN trace' = Append(trace, LastIndex + 1)
            ELSE mode' = "halted" /\ err' = NoError /\ trace' = trace]_vars

\* jnz #999 with s = 0 in a program of two lines, and the second line has run
C20_Witness ==
    /\ Len(trace) = 2
    /\ Handler(inst[trace[1] + 1]) = "jnz"
    /\ Split(Trim(Split(inst[trace[1] + 1], " ")[2]), ",")[1] = Imm(999)
    /\ pEnd < 999
    /\ trace[2] = trace[1] + 1
    /\ mode = "running"
    /\ registers[S] = Num(0)
    /\ registers[R1] = Num(1)

====
